---- MODULE Spec2Model ----
(***************************************************************************)
(* Manifest Provenance Observation Engine of integrity-shield (package     *)
(* observer): the provenance extractor, the commit-detail URL transform,   *)
(* the commit resolver, the manifest locator and the observation recorder. *)
(* Each component is a call/return state machine: an action takes the      *)
(* call's inputs from small sets and executes the whole function.          *)
(***************************************************************************)
EXTENDS Integers, Sequences, FiniteSets, TLC

VARIABLES
    urlPc, urlIn, urlOut,          \* convertToCommitDetailURL: call state, input, result
    exPc, exIn, resourceLog,       \* GetProvenanceFromVerifyResourceResult
    token,                         \* the environment variable GIT_TOKEN
    rsPc, rsIn,                    \* commit resolver: process state, inputs of the last call
    requests,                      \* the HTTP requests sent in the current cycle
    results,                       \* the ManifestProvenanceResults built in the current cycle
    deadline,                      \* the deadline of the current cycle has passed
    locPc, locIn, locOut,          \* getManifestYaml: call state, inputs, result
    history,                       \* the ObservationHistory: the results of the last cycle
    recPc, recIn,                  \* observation recorder: call state, inputs of the last call
    newHistory, pending,           \* the history being built, the results not yet recorded
    lkPc, lkIn, lkOut              \* history lookups: call state, inputs, result

vars == <<urlPc, urlIn, urlOut, exPc, exIn, resourceLog, token, rsPc, rsIn, requests, results,
          deadline,
          locPc, locIn, locOut, history, recPc, recIn, newHistory, pending,
          lkPc, lkIn, lkOut>>

urlVars == <<urlPc, urlIn, urlOut>>
exVars == <<exPc, exIn, resourceLog>>
rsVars == <<token, rsPc, rsIn, requests, results, deadline>>
locVars == <<locPc, locIn, locOut>>
recVars == <<history, recPc, recIn, newHistory, pending>>
lkVars == <<lkPc, lkIn, lkOut>>

(***************************************************************************)
(* Go's strings package, on TLA+ strings.                                  *)
(***************************************************************************)

\* strings.Index: the position of the first occurrence of sub in s, 0 if none.
Index(s, sub) ==
    LET hits == {i \in 1..(Len(s) - Len(sub) + 1) : SubSeq(s, i, i + Len(sub) - 1) = sub}
    IN IF hits = {} THEN 0 ELSE CHOOSE i \in hits : \A j \in hits : i <= j

\* strings.Replace(s, old, new, 1): only the first occurrence of old is replaced.
ReplaceFirst(s, old, new) ==
    LET i == Index(s, old)
    IN IF i = 0 THEN s
       ELSE SubSeq(s, 1, i - 1) \o new \o SubSeq(s, i + Len(old), Len(s))

convertToCommitDetailURL(uri, commit) ==
    LET replaced == ReplaceFirst(uri, ".git", "/commits")
        replaced1 == ReplaceFirst(replaced, "github.com", "api.github.com/repos")
    IN replaced1 \o "/" \o commit

(***************************************************************************)
(* Source URIs, given by their parts so that the intended commit-detail    *)
(* URL can be written down from the parts, without any string search.      *)
(***************************************************************************)
Schemes == {"https://", "http://"}
Hosts == {"github.com", "www.github.com", "gitlab.com"}
Owners == {"acme", "github.community"}
Repos == {"app", "acme.github.io", "app.gitops", "sample-app"}
Suffixes == {".git", ""}
CommitIDs == {"abc123", "def456", ""}

UriParts == [scheme : Schemes, host : Hosts, owner : Owners, repo : Repos, suffix : Suffixes]

UriOf(p) == p.scheme \o p.host \o "/" \o p.owner \o "/" \o p.repo \o p.suffix

\* The commit-detail URL the transform is meant to produce: the trailing .git
\* is replaced by /commits, the host github.com by api.github.com/repos.
IntendedCommitDetailURL(p, commit) ==
    p.scheme
    \o (IF p.host = "github.com" THEN "api.github.com/repos" ELSE p.host)
    \o "/" \o p.owner \o "/" \o p.repo
    \o (IF p.suffix = ".git" THEN "/commits" ELSE "")
    \o "/" \o commit

ZeroUriParts == [scheme |-> "", host |-> "", owner |-> "", repo |-> "", suffix |-> ""]

UrlInit ==
    /\ urlPc = "idle"
    /\ urlIn = [parts |-> ZeroUriParts, commit |-> ""]
    /\ urlOut = ""

\* One call of convertToCommitDetailURL(uri, commit).
ConvertURL ==
    /\ urlPc = "idle"
    /\ \E p \in UriParts, c \in CommitIDs :
          /\ urlIn' = [parts |-> p, commit |-> c]
          /\ urlOut' = convertToCommitDetailURL(UriOf(p), c)
    /\ urlPc' = "returned"
    /\ UNCHANGED <<exVars, rsVars, locVars, recVars, lkVars>>

\* The caller takes the result; the next call can start.
ConvertURLReturn ==
    /\ urlPc = "returned"
    /\ urlPc' = "idle"
    /\ urlIn' = [parts |-> ZeroUriParts, commit |-> ""]
    /\ urlOut' = ""
    /\ UNCHANGED <<exVars, rsVars, locVars, recVars, lkVars>>

(***************************************************************************)
(* Provenance extractor.  A VerifyResult is a resource and its provenance  *)
(* statements; a statement has an artifact, an artifact type, a hash and   *)
(* attestation materials (URI and digest set).                             *)
(***************************************************************************)
MaxStatements == 2
MaxMaterials == 2

\* k8smnfutil.ArtifactManifestImage, and the other artifact type of the library.
ArtifactManifestImage == "manifestImage"
ArtifactContainerImage == "containerImage"

\* A digest set is a map from algorithm name to value.
EmptyDigest == [k \in {} |-> ""]
Materials ==
    { [URI |-> "https://github.com/acme/app.git", Digest |-> [commit |-> "abc123"]],
      [URI |-> "https://github.com/acme/infra.git", Digest |-> EmptyDigest] }

StatementHeads ==
    { [ArtifactType |-> ArtifactManifestImage, Artifact |-> "ghcr.io/acme/manifest:v1", Hash |-> "sha256:aa"],
      [ArtifactType |-> ArtifactManifestImage, Artifact |-> "ghcr.io/acme/manifest:v2", Hash |-> "sha256:bb"],
      [ArtifactType |-> ArtifactContainerImage, Artifact |-> "ghcr.io/acme/app:v1", Hash |-> "sha256:cc"] }

SeqsUpTo(S, n) == UNION {[1..k -> S] : k \in 0..n}

Statements ==
    { [ArtifactType |-> h.ArtifactType, Artifact |-> h.Artifact, Hash |-> h.Hash,
       AttestationMaterials |-> ams] :
      h \in StatementHeads, ams \in SeqsUpTo(Materials, MaxMaterials) }

Resources ==
    { [APIVersion |-> "apps/v1", Kind |-> "Deployment", Namespace |-> "default", Name |-> "web"],
      [APIVersion |-> "v1", Kind |-> "ConfigMap", Namespace |-> "prod", Name |-> "web"] }

VerifyResults ==
    [Resource : Resources, Provenances : SeqsUpTo(Statements, MaxStatements)]

\* A mutant of getCommitID: the commit is read under another key.
getCommitID_Revision(digest) ==
    IF "revision" \in DOMAIN digest THEN digest["revision"] ELSE ""

\* getCommitID: the value under "commit", the empty string when the key is absent.
getCommitID(digest) ==
    IF "commit" \in DOMAIN digest THEN digest["commit"] ELSE ""

\* The body of the loop over pr.AttestationMaterials: one info per material.
NewManifestProvenanceInfo(pr, am) ==
    LET commitID == getCommitID(am.Digest)
        url == convertToCommitDetailURL(am.URI, commitID)
    IN [Artifact |-> pr.Artifact, CommitID |-> commitID, GitApiURL |-> url,
        Hash |-> pr.Hash, GitRepo |-> am.URI]

RECURSIVE AppendMaterials_Dedup(_, _, _)
\* A mutant of AppendMaterials: a material whose repo and commit are already
\* in the output is dropped.
AppendMaterials_Dedup(infos, pr, ams) ==
    IF ams = <<>> THEN infos
    ELSE LET new == NewManifestProvenanceInfo(pr, Head(ams))
             seen == \E k \in DOMAIN infos :
                        infos[k].GitRepo = new.GitRepo /\ infos[k].CommitID = new.CommitID
         IN AppendMaterials_Dedup(IF seen THEN infos ELSE Append(infos, new), pr, Tail(ams))

RECURSIVE AppendMaterials(_, _, _)
\* for _, am := range pr.AttestationMaterials { ... append(infos, mprovinfo) }
AppendMaterials(infos, pr, ams) ==
    IF ams = <<>> THEN infos
    ELSE AppendMaterials(Append(infos, NewManifestProvenanceInfo(pr, Head(ams))), pr, Tail(ams))

\* A mutant of KeepsStatement: statements of every artifact type are kept.
KeepsStatement_AnyType(pr) == TRUE

\* The type test of the loop over res.Provenances: other types are skipped.
KeepsStatement(pr) == pr.ArtifactType = ArtifactManifestImage

RECURSIVE AppendProvenances(_, _)
\* for _, pr := range res.Provenances { ... }
AppendProvenances(infos, prs) ==
    IF prs = <<>> THEN infos
    ELSE LET pr == Head(prs)
         IN IF ~KeepsStatement(pr) THEN AppendProvenances(infos, Tail(prs))
            ELSE IF Len(pr.AttestationMaterials) # 0
                 THEN AppendProvenances(AppendMaterials(infos, pr, pr.AttestationMaterials), Tail(prs))
                 ELSE AppendProvenances(infos, Tail(prs))

GetProvenanceFromVerifyResourceResult(res) ==
    LET head == [Kind |-> res.Resource.Kind, Namespace |-> res.Resource.Namespace,
                 Name |-> res.Resource.Name, Resource |-> res.Resource]
    IN IF Len(res.Provenances) = 0
       THEN head @@ [ManifestProvenanceInfo |-> <<>>]
       ELSE head @@ [ManifestProvenanceInfo |-> AppendProvenances(<<>>, res.Provenances)]

\* The zero values of VerifyResult and ObservationResourceResult.
ZeroResource == [APIVersion |-> "", Kind |-> "", Namespace |-> "", Name |-> ""]
ZeroVerifyResult == [Resource |-> ZeroResource, Provenances |-> <<>>]
ZeroResourceLog ==
    [Kind |-> "", Namespace |-> "", Name |-> "", Resource |-> ZeroResource,
     ManifestProvenanceInfo |-> <<>>]

ExInit ==
    /\ exPc = "idle"
    /\ exIn = ZeroVerifyResult
    /\ resourceLog = ZeroResourceLog

\* One call of GetProvenanceFromVerifyResourceResult(res).
Extract ==
    /\ exPc = "idle"
    /\ \E res \in VerifyResults :
          /\ exIn' = res
          /\ resourceLog' = GetProvenanceFromVerifyResourceResult(res)
    /\ exPc' = "returned"
    /\ UNCHANGED <<urlVars, rsVars, locVars, recVars, lkVars>>

\* The caller takes the resource log; the next verify result can be handled.
ExtractReturn ==
    /\ exPc = "returned"
    /\ exPc' = "idle"
    /\ exIn' = ZeroVerifyResult
    /\ resourceLog' = ZeroResourceLog
    /\ UNCHANGED <<urlVars, rsVars, locVars, recVars, lkVars>>

ExNext == Extract \/ ExtractReturn

(***************************************************************************)
(* Commit resolver.  JSON values as encoding/json decodes them into        *)
(* interface{}: nil, string, float64, map[string]interface{} and           *)
(* []interface{}.  A type assertion x.(T) without ", ok" panics unless the *)
(* dynamic type of x is T.                                                 *)
(***************************************************************************)
JNull == <<"nil">>
JString(str) == <<"string", str>>
JNumber == <<"float64">>
JObject(m) == <<"map", m>>
JArray(a) == <<"slice", a>>

IsString(v) == v[1] = "string"
IsMap(v) == v[1] = "map"
IsSlice(v) == v[1] = "slice"

\* m[key] on a Go map: the zero value (nil) when the key is absent.
MapGet(m, key) == IF key \in DOMAIN m THEN m[key] ELSE JNull

EmptyMap == [k \in {} |-> JNull]

\* Response bodies.  valid: the bytes are syntactically valid JSON.
Body(value) == [valid |-> TRUE, value |-> value]
InvalidBody == [valid |-> FALSE, value |-> JNull]

AuthorFull == [email |-> JString("dev@acme.io"), date |-> JString("2021-08-13T08:34:59Z")]
AuthorNoEmail == [date |-> JString("2021-08-13T08:34:59Z")]
AuthorNullEmail == [email |-> JNull, date |-> JString("2021-08-13T08:34:59Z")]
AuthorNoDate == [email |-> JString("dev@acme.io")]
AuthorNumberDate == [email |-> JString("dev@acme.io"), date |-> JNumber]
FilesOne == JArray(<<JObject([filename |-> JString("deploy.yaml")])>>)
FilesBadEntry == JArray(<<JObject([filename |-> JString("deploy.yaml")]),
                          JObject([status |-> JString("modified")])>>)

CommitBody(author, files) ==
    Body(JObject([sha |-> JString("fff999"),
                  commit |-> JObject([author |-> JObject(author)]), files |-> files]))

GoodBody == CommitBody(AuthorFull, FilesOne)
EmptyFilesBody == CommitBody(AuthorFull, JArray(<<>>))
NoFilesBody == Body(JObject([commit |-> JObject([author |-> JObject(AuthorFull)])]))
NoEmailBody == CommitBody(AuthorNoEmail, FilesOne)
NullEmailBody == CommitBody(AuthorNullEmail, FilesOne)
NoDateBody == CommitBody(AuthorNoDate, FilesOne)
NumberDateBody == CommitBody(AuthorNumberDate, FilesOne)
NoAuthorBody == Body(JObject([commit |-> JObject([message |-> JString("fix")]), files |-> FilesOne]))
NullAuthorBody == Body(JObject([commit |-> JObject([author |-> JNull]), files |-> FilesOne]))
BadFileBody == CommitBody(AuthorFull, FilesBadEntry)
NotFoundBody == Body(JObject([message |-> JString("Not Found")]))
ArrayBody == Body(JArray(<<>>))

Bodies ==
    { GoodBody, EmptyFilesBody, NoFilesBody, NoEmailBody, NullEmailBody, NoDateBody,
      NumberDateBody, NoAuthorBody, NullAuthorBody, BadFileBody, NotFoundBody, ArrayBody, InvalidBody }

\* What the network does with one GET: client.Get fails (res is nil), or a
\* response arrives and its body is read, completely or up to a read error.
NetOutcomes ==
    {[kind |-> "transportError", body |-> InvalidBody]}
    \cup {[kind |-> "readError", body |-> InvalidBody]}
    \cup {[kind |-> "response", body |-> b] : b \in Bodies}
    \cup {[kind |-> "hang", body |-> InvalidBody]}

\* client.Get(url) of a client without Timeout, on a server that accepts the
\* connection and sends nothing: the call does not return.
NeverReturns(net) == net.kind = "hang"

ZeroCommitData == [Commit |-> "", Date |-> "", Author |-> "", Files |-> <<>>]

RECURSIVE FileNames(_, _)
\* for _, file := range files { name := file.(map)["filename"].(string); append }
\* The result is [panic, names].
FileNames(names, files) ==
    IF files = <<>> THEN [panic |-> FALSE, names |-> names]
    ELSE LET file == Head(files)
         IN IF ~IsMap(file) THEN [panic |-> TRUE, names |-> names]
            ELSE LET name == MapGet(file[2], "filename")
                 IN IF ~IsString(name) THEN [panic |-> TRUE, names |-> names]
                    ELSE FileNames(Append(names, name[2]), Tail(files))

\* getCommitInfoFromDetail(body, cmtid): [panic, data].  A failed Unmarshal is
\* only printed; data stays a nil map, which reads as an empty map.
getCommitInfoFromDetail(body, cmtid) ==
    LET data == IF body.valid /\ IsMap(body.value) THEN body.value[2] ELSE EmptyMap
        cmtdata0 == [ZeroCommitData EXCEPT !.Commit = cmtid]
        panicked(d) == [panic |-> TRUE, data |-> d]
        commit == MapGet(data, "commit")
    IN IF ~IsMap(commit) THEN panicked(cmtdata0)
       ELSE LET authorObj == MapGet(commit[2], "author")
            IN IF ~IsMap(authorObj) THEN panicked(cmtdata0)
               ELSE LET author == MapGet(authorObj[2], "email")
                        date == MapGet(authorObj[2], "date")
                    IN IF author # JNull /\ ~IsString(author) THEN panicked(cmtdata0)
                       ELSE LET cmtdata1 == IF author # JNull
                                            THEN [cmtdata0 EXCEPT !.Author = author[2]]
                                            ELSE cmtdata0
                            IN IF ~IsString(date) THEN panicked(cmtdata1)
                               ELSE LET cmtdata2 == [cmtdata1 EXCEPT !.Date = date[2]]
                                        files == MapGet(data, "files")
                                    IN IF ~IsSlice(files) THEN panicked(cmtdata2)
                                       ELSE LET fn == FileNames(<<>>, files[2])
                                            IN IF fn.panic THEN panicked(cmtdata2)
                                               ELSE [panic |-> FALSE,
                                                     data |-> [cmtdata2 EXCEPT !.Files = fn.names]]

NoHeader == [k \in {} |-> ""]

\* The request client.Get(url) builds and sends: a GET with no headers of
\* the caller.
ClientGetRequest(url) == [Method |-> "GET", URL |-> url, Header |-> NoHeader]

\* accessGitRepo(url, token): [panic, sent, body].  The request req that gets
\* the Authorization header is built and never used; client.Get(url) sends
\* its own.  A transport error is logged and res.Body is then read from a nil
\* response; a read error is logged and the bytes read so far are returned.
accessGitRepo(url, tok, net) ==
    LET bearer == "Bearer " \o tok
        req == [Method |-> "GET", URL |-> url, Header |-> [Authorization |-> bearer]]
        sent == ClientGetRequest(url)
    IN IF net.kind = "transportError"
       THEN [panic |-> TRUE, sent |-> sent, body |-> InvalidBody]
       ELSE [panic |-> FALSE, sent |-> sent, body |-> net.body]

ZeroProvenanceResult ==
    [GitRepo |-> "", GitApiURL |-> "", CommitID |-> "", CommitDate |-> "", Author |-> "",
     Files |-> <<>>, Hash |-> "", Artifact |-> ""]

\* A mutant of setNewManifestProvenanceResult: the commit ID is the sha of
\* the response.
setNewManifestProvenanceResult_ResponseSha(prov, tok, net) ==
    LET access == accessGitRepo(prov.GitApiURL, tok, net)
    IN IF access.panic
       THEN [panic |-> TRUE, sent |-> access.sent, mpres |-> ZeroProvenanceResult]
       ELSE LET cmtd == getCommitInfoFromDetail(access.body, prov.CommitID)
            IN IF cmtd.panic
               THEN [panic |-> TRUE, sent |-> access.sent, mpres |-> ZeroProvenanceResult]
               ELSE [panic |-> FALSE, sent |-> access.sent,
                     mpres |-> [GitRepo |-> prov.GitRepo,
                                GitApiURL |-> prov.GitApiURL,
                                CommitID |-> IF IsString(MapGet(access.body.value[2], "sha"))
                                             THEN MapGet(access.body.value[2], "sha")[2]
                                             ELSE prov.CommitID,
                                CommitDate |-> cmtd.data.Date,
                                Author |-> cmtd.data.Author,
                                Files |-> cmtd.data.Files,
                                Hash |-> prov.Hash,
                                Artifact |-> prov.Artifact]]

\* setNewManifestProvenanceResult(prov) with GIT_TOKEN = tok and the network
\* answering net: [panic, sent, mpres].
setNewManifestProvenanceResult(prov, tok, net) ==
    LET access == accessGitRepo(prov.GitApiURL, tok, net)
    IN IF access.panic
       THEN [panic |-> TRUE, sent |-> access.sent, mpres |-> ZeroProvenanceResult]
       ELSE LET cmtd == getCommitInfoFromDetail(access.body, prov.CommitID)
            IN IF cmtd.panic
               THEN [panic |-> TRUE, sent |-> access.sent, mpres |-> ZeroProvenanceResult]
               ELSE [panic |-> FALSE, sent |-> access.sent,
                     mpres |-> [GitRepo |-> prov.GitRepo,
                                GitApiURL |-> prov.GitApiURL,
                                CommitID |-> prov.CommitID,
                                CommitDate |-> cmtd.data.Date,
                                Author |-> cmtd.data.Author,
                                Files |-> cmtd.data.Files,
                                Hash |-> prov.Hash,
                                Artifact |-> prov.Artifact]]

\* The provenance infos the extractor builds from manifest-image statements.
ProvInfos ==
    { NewManifestProvenanceInfo(h, m) :
        h \in {x \in StatementHeads : KeepsStatement(x)}, m \in Materials }

ZeroProvInfo == [Artifact |-> "", CommitID |-> "", GitApiURL |-> "", Hash |-> "", GitRepo |-> ""]
NoCall == [prov |-> ZeroProvInfo, net |-> [kind |-> "none", body |-> InvalidBody]]

\* The number of resolutions of one cycle.
MaxResolves == 2

RsInit ==
    /\ token \in {"", "ghp_s3cr3t"}
    /\ rsPc = "running"
    /\ rsIn = NoCall
    /\ requests = <<>>
    /\ results = <<>>
    /\ deadline = FALSE

\* One resolution: setNewManifestProvenanceResult(prov).  A panic is not
\* recovered anywhere in the package: the process ends.  No deadline is
\* passed to the call or read by it: it starts whether the deadline has
\* passed or not, and a GET that is not answered is waited for.
Resolve ==
    /\ rsPc = "running"
    /\ Len(requests) < MaxResolves
    /\ \E prov \in ProvInfos, net \in NetOutcomes :
          LET r == setNewManifestProvenanceResult(prov, token, net)
          IN /\ rsIn' = [prov |-> prov, net |-> net]
             /\ requests' = Append(requests, r.sent)
             /\ rsPc' = IF NeverReturns(net) THEN "blocked"
                        ELSE IF r.panic THEN "panicked" ELSE "running"
             /\ results' = IF NeverReturns(net) \/ r.panic THEN results
                           ELSE Append(results, r.mpres)
    /\ UNCHANGED <<token, deadline, urlVars, exVars, locVars, recVars, lkVars>>

\* The deadline of the cycle passes.
DeadlineExpires ==
    /\ rsPc \in {"running", "blocked"}
    /\ deadline = FALSE
    /\ deadline' = TRUE
    /\ UNCHANGED <<token, rsPc, rsIn, requests, results, urlVars, exVars, locVars, recVars,
                   lkVars>>

\* The cycle ends and the next one starts: nothing of the cycle is kept.
NextCycle ==
    /\ rsPc = "running"
    /\ requests # <<>>
    /\ rsIn' = NoCall
    /\ requests' = <<>>
    /\ results' = <<>>
    /\ deadline' = FALSE
    /\ UNCHANGED <<token, rsPc, urlVars, exVars, locVars, recVars, lkVars>>

RsNext == Resolve \/ DeadlineExpires \/ NextCycle

(***************************************************************************)
(* Manifest locator.  The bundle is the list of documents that             *)
(* SplitConcatYAMLs returns for the image.  yaml.Unmarshal of a document   *)
(* into *unstructured.Unstructured fails ("error"), leaves the pointer nil *)
(* (a document that is YAML null: empty, or only comments) or yields an    *)
(* object.  The bytes of a document are the document itself.               *)
(***************************************************************************)
MaxDocs == 2

ObjectDocs ==
    [parse : {"object"}, APIVersion : {"apps/v1", "apps/v1beta1"}, Kind : {"Deployment", "Service"},
     Name : {"web", "api"}, Namespace : {"default", "prod"}, Content : {"spec-a", "spec-b"}]
OtherDoc(parse) ==
    [parse |-> parse, APIVersion |-> "", Kind |-> "", Name |-> "", Namespace |-> "", Content |-> ""]
UnparsableDoc == OtherDoc("error")
NullDoc == OtherDoc("null")
NilBytes == OtherDoc("nil")

Docs == ObjectDocs \cup {UnparsableDoc, NullDoc}

\* The live resources handed to the locator.  Content stands for the fields
\* the content-based search compares.
LiveObjects ==
    { [APIVersion |-> "apps/v1", Kind |-> "Deployment", Name |-> "web", Namespace |-> "default",
       Content |-> "spec-a"],
      [APIVersion |-> "apps/v1", Kind |-> "Service", Name |-> "api", Namespace |-> "prod",
       Content |-> "spec-b"] }

\* What the calls before the search return: all succeed, or PullImage,
\* GenerateConcatYAMLsFromImage or yaml.Marshal(obj) returns an error.
LocateEnvs == {"ok", "pullError", "unpackError", "marshalError"}

RECURSIVE KindMatchedYAMLs(_, _, _)
\* The loop over yamls: [panic, yamls].  A document that fails to parse is
\* skipped; mnfObj.GetKind() on a nil mnfObj dereferences a nil pointer.
KindMatchedYAMLs(matched, yamls, kind) ==
    IF yamls = <<>> THEN [panic |-> FALSE, yamls |-> matched]
    ELSE LET manifest == Head(yamls)
         IN IF manifest.parse = "error" THEN KindMatchedYAMLs(matched, Tail(yamls), kind)
            ELSE IF manifest.parse = "null" THEN [panic |-> TRUE, yamls |-> matched]
            ELSE IF kind = manifest.Kind
                 THEN KindMatchedYAMLs(Append(matched, manifest), Tail(yamls), kind)
                 ELSE KindMatchedYAMLs(matched, Tail(yamls), kind)

\* The first of the candidates at the positions hits: [found, bytes].
FirstCandidate(candidates, hits) ==
    IF hits = {} THEN [found |-> FALSE, bytes |-> NilBytes]
    ELSE [found |-> TRUE, bytes |-> candidates[CHOOSE i \in hits : \A j \in hits : i <= j]]

\* k8smnfutil.ManifestSearchByGVKNameNamespace: the first candidate with the
\* given apiVersion, kind, name and namespace.
ManifestSearchByGVKNameNamespace(candidates, apiVersion, kind, name, namespace) ==
    FirstCandidate(candidates,
        {i \in DOMAIN candidates :
            /\ candidates[i].APIVersion = apiVersion /\ candidates[i].Kind = kind
            /\ candidates[i].Name = name /\ candidates[i].Namespace = namespace})

\* k8smnfutil.ManifestSearchByContent: the first candidate whose content
\* matches the serialized resource.
ManifestSearchByContent(candidates, obj) ==
    FirstCandidate(candidates, {i \in DOMAIN candidates : candidates[i].Content = obj.Content})

NotFound == [panic |-> FALSE, found |-> FALSE, bytes |-> NilBytes, byContent |-> FALSE]

\* The two searches of getManifestYaml over the candidates.  byContent: the
\* content-based search was called.
SearchCandidates(candidates, obj) ==
    LET byId == ManifestSearchByGVKNameNamespace(candidates, obj.APIVersion, obj.Kind,
                                                 obj.Name, obj.Namespace)
    IN IF byId.found
       THEN [panic |-> FALSE, found |-> TRUE, bytes |-> byId.bytes, byContent |-> FALSE]
       ELSE LET byContent == ManifestSearchByContent(candidates, obj)
            IN IF byContent.found
               THEN [panic |-> FALSE, found |-> TRUE, bytes |-> byContent.bytes, byContent |-> TRUE]
               ELSE [NotFound EXCEPT !.byContent = TRUE]

\* getManifestYaml(imageRef, obj), the image holding the documents yamls:
\* [panic, found, bytes, byContent].
getManifestYaml(env, yamls, obj) ==
    IF env # "ok" THEN NotFound
    ELSE LET kindMatched == KindMatchedYAMLs(<<>>, yamls, obj.Kind)
         IN IF kindMatched.panic THEN [NotFound EXCEPT !.panic = TRUE]
            ELSE IF Len(kindMatched.yamls) = 0 THEN NotFound
            ELSE SearchCandidates(kindMatched.yamls, obj)

ZeroObject == [APIVersion |-> "", Kind |-> "", Name |-> "", Namespace |-> "", Content |-> ""]
NoLocate == [env |-> "none", yamls |-> <<>>, obj |-> ZeroObject]

LocInit ==
    /\ locPc = "idle"
    /\ locIn = NoLocate
    /\ locOut = NotFound

\* One call of getManifestYaml.  A panic is not recovered: the process ends.
Locate ==
    /\ locPc = "idle"
    /\ \E env \in LocateEnvs, yamls \in SeqsUpTo(Docs, MaxDocs), obj \in LiveObjects :
          LET r == getManifestYaml(env, yamls, obj)
          IN /\ locIn' = [env |-> env, yamls |-> yamls, obj |-> obj]
             /\ locOut' = r
             /\ locPc' = IF r.panic THEN "panicked" ELSE "returned"
    /\ UNCHANGED <<urlVars, exVars, rsVars, recVars, lkVars>>

\* The caller takes the result; the next resource can be located.
LocateReturn ==
    /\ locPc = "returned"
    /\ locPc' = "idle"
    /\ locIn' = NoLocate
    /\ locOut' = NotFound
    /\ UNCHANGED <<urlVars, exVars, rsVars, recVars, lkVars>>

LocNext == Locate \/ LocateReturn

(***************************************************************************)
(* Observation recorder.  The history lookups are the package's; the       *)
(* record operation that drives them is described in the design, 4.4.      *)
(***************************************************************************)
ZeroFinalResult ==
    [Kind |-> "", Namespace |-> "", Name |-> "", ManifestProvenanceResult |-> <<>>]

RECURSIVE getTargetResourceLog_AnyNamespace(_, _)
\* A mutant of getTargetResourceLog: the namespace is not compared.
getTargetResourceLog_AnyNamespace(res, lastResults) ==
    IF lastResults = <<>> THEN [found |-> FALSE, lres |-> ZeroFinalResult]
    ELSE LET lres == Head(lastResults)
         IN IF lres.Kind = res.Kind /\ lres.Name = res.Name
            THEN [found |-> TRUE, lres |-> lres]
            ELSE getTargetResourceLog_AnyNamespace(res, Tail(lastResults))

RECURSIVE getTargetResourceLog(_, _)
\* The first entry of lastResults with the kind, namespace and name of res:
\* [found, lres].
getTargetResourceLog(res, lastResults) ==
    IF lastResults = <<>> THEN [found |-> FALSE, lres |-> ZeroFinalResult]
    ELSE LET lres == Head(lastResults)
         IN IF lres.Kind = res.Kind /\ lres.Namespace = res.Namespace /\ lres.Name = res.Name
            THEN [found |-> TRUE, lres |-> lres]
            ELSE getTargetResourceLog(res, Tail(lastResults))

RECURSIVE getTargetProvenanceLog_SameCommit(_, _)
\* A mutant of getTargetProvenanceLog: the commit is compared too.
getTargetProvenanceLog_SameCommit(new, lastProvs) ==
    IF lastProvs = <<>> THEN [found |-> FALSE, prov |-> ZeroProvenanceResult]
    ELSE LET prov == Head(lastProvs)
         IN IF prov.GitRepo = new.GitRepo /\ prov.CommitID = new.CommitID
            THEN [found |-> TRUE, prov |-> prov]
            ELSE getTargetProvenanceLog_SameCommit(new, Tail(lastProvs))

RECURSIVE getTargetProvenanceLog(_, _)
\* The first result of lastProvs with the repo of new: [found, prov].
getTargetProvenanceLog(new, lastProvs) ==
    IF lastProvs = <<>> THEN [found |-> FALSE, prov |-> ZeroProvenanceResult]
    ELSE LET prov == Head(lastProvs)
         IN IF prov.GitRepo = new.GitRepo
            THEN [found |-> TRUE, prov |-> prov]
            ELSE getTargetProvenanceLog(new, Tail(lastProvs))

(***************************************************************************)
(* The lookups, called on their own.                                       *)
(***************************************************************************)

\* The length of the lists looked up.
MaxHistory == 2

\* The results looked up: identities that differ in one field or more.
LookupResults ==
    [Kind : {"Deployment", "Service"}, Namespace : {"default", "prod"}, Name : {"web", "api"},
     Resource : {ZeroResource}, ManifestProvenanceInfo : {<<>>}]

\* The provenance results of prior cycles: two repos, at two commits, from
\* two artifacts.
LookupProvs ==
    { [ZeroProvenanceResult EXCEPT !.GitRepo = m.URI, !.CommitID = c, !.Artifact = h.Artifact,
                                   !.Hash = h.Hash] :
        m \in Materials, c \in {"abc123", "def456"},
        h \in {x \in StatementHeads : KeepsStatement(x)} }

\* The entries of prior histories: every identity, with and without results.
LookupEntries ==
    [Kind : {"Deployment", "Service"}, Namespace : {"default", "prod"}, Name : {"web", "api"},
     ManifestProvenanceResult :
        {<<>>, <<[ZeroProvenanceResult EXCEPT !.GitRepo = "https://github.com/acme/app.git",
                                               !.CommitID = "abc123"]>>}]

NoLookup ==
    [res |-> ZeroResourceLog, lastResults |-> <<>>, new |-> ZeroProvInfo, lastProvs |-> <<>>]
NoLookupResult == [found |-> FALSE, lres |-> ZeroFinalResult, prov |-> ZeroProvenanceResult]

LkInit ==
    /\ lkPc = "idle"
    /\ lkIn = NoLookup
    /\ lkOut = NoLookupResult

\* getTargetResourceLog(res, lastResults) is called.
FindByIdentity ==
    /\ lkPc = "idle"
    /\ \E res \in LookupResults, lastResults \in SeqsUpTo(LookupEntries, MaxHistory) :
          LET r == getTargetResourceLog(res, lastResults)
          IN /\ lkIn' = [NoLookup EXCEPT !.res = res, !.lastResults = lastResults]
             /\ lkOut' = [NoLookupResult EXCEPT !.found = r.found, !.lres = r.lres]
    /\ lkPc' = "byIdentity"
    /\ UNCHANGED <<urlVars, exVars, rsVars, locVars, recVars>>

\* getTargetProvenanceLog(new, lastProvs) is called.
FindByRepo ==
    /\ lkPc = "idle"
    /\ \E new \in ProvInfos, lastProvs \in SeqsUpTo(LookupProvs, MaxHistory) :
          LET r == getTargetProvenanceLog(new, lastProvs)
          IN /\ lkIn' = [NoLookup EXCEPT !.new = new, !.lastProvs = lastProvs]
             /\ lkOut' = [NoLookupResult EXCEPT !.found = r.found, !.prov = r.prov]
    /\ lkPc' = "byRepo"
    /\ UNCHANGED <<urlVars, exVars, rsVars, locVars, recVars>>

LookupReturn ==
    /\ lkPc \in {"byIdentity", "byRepo"}
    /\ lkPc' = "idle"
    /\ lkIn' = NoLookup
    /\ lkOut' = NoLookupResult
    /\ UNCHANGED <<urlVars, exVars, rsVars, locVars, recVars>>

LkNext == FindByIdentity \/ FindByRepo \/ LookupReturn

\* The number of results of one cycle.
MaxResults == 2

\* The materials of the cycles recorded: a repository at two commits.
RecordMaterials ==
    { [URI |-> "https://github.com/acme/app.git", Digest |-> [commit |-> "abc123"]],
      [URI |-> "https://github.com/acme/app.git", Digest |-> [commit |-> "def456"]] }

RecordStatements ==
    { [ArtifactType |-> ArtifactManifestImage, Artifact |-> "ghcr.io/acme/manifest:v1",
       Hash |-> "sha256:aa", AttestationMaterials |-> ams] :
      ams \in SeqsUpTo(RecordMaterials, 1) }

RecordResources ==
    { [APIVersion |-> "apps/v1", Kind |-> "Deployment", Namespace |-> "default", Name |-> "web"],
      [APIVersion |-> "apps/v1", Kind |-> "Deployment", Namespace |-> "default", Name |-> "api"] }

\* The per-resource results of a cycle, as the extractor builds them.
CycleResults ==
    { GetProvenanceFromVerifyResourceResult([Resource |-> r, Provenances |-> <<st>>]) :
        r \in RecordResources, st \in RecordStatements }

\* The answers of the network in a cycle recorded.
RecordNets ==
    { [kind |-> "response", body |-> GoodBody], [kind |-> "transportError", body |-> InvalidBody] }

RECURSIVE ResolveInfos_ByRepo(_, _, _, _, _)
\* A mutant of ResolveInfos: the prior result of the repo is taken whatever
\* its commit.
ResolveInfos_ByRepo(provs, infos, lastProvs, tok, net) ==
    IF infos = <<>> THEN [panic |-> FALSE, provs |-> provs]
    ELSE LET info == Head(infos)
             last == getTargetProvenanceLog(info, lastProvs)
         IN IF last.found
            THEN ResolveInfos_ByRepo(Append(provs, last.prov), Tail(infos), lastProvs, tok, net)
            ELSE LET r == setNewManifestProvenanceResult(info, tok, net)
                 IN IF r.panic THEN [panic |-> TRUE, provs |-> provs]
                    ELSE ResolveInfos_ByRepo(Append(provs, r.mpres), Tail(infos),
                                             lastProvs, tok, net)

RECURSIVE ResolveInfos(_, _, _, _, _)
\* The provenance results of one resource: [panic, provs].  An info whose
\* repo and commit are in the prior entry takes the prior commit detail; any
\* other is resolved by setNewManifestProvenanceResult.
ResolveInfos(provs, infos, lastProvs, tok, net) ==
    IF infos = <<>> THEN [panic |-> FALSE, provs |-> provs]
    ELSE LET info == Head(infos)
             last == getTargetProvenanceLog(info, lastProvs)
         IN IF last.found /\ last.prov.CommitID = info.CommitID
            THEN ResolveInfos(
                    Append(provs, [last.prov EXCEPT !.GitApiURL = info.GitApiURL,
                                                    !.Hash = info.Hash,
                                                    !.Artifact = info.Artifact]),
                    Tail(infos), lastProvs, tok, net)
            ELSE LET r == setNewManifestProvenanceResult(info, tok, net)
                 IN IF r.panic THEN [panic |-> TRUE, provs |-> provs]
                    ELSE ResolveInfos(Append(provs, r.mpres), Tail(infos), lastProvs, tok, net)

SameIdentity(a, b) == a.Kind = b.Kind /\ a.Namespace = b.Namespace /\ a.Name = b.Name

\* A mutant of PutEntry: the entries are keyed by kind alone.
PutEntry_ByKind(hist, entry) ==
    IF \E k \in DOMAIN hist : hist[k].Kind = entry.Kind
    THEN [k \in DOMAIN hist |-> IF hist[k].Kind = entry.Kind THEN entry ELSE hist[k]]
    ELSE Append(hist, entry)

\* A mutant of PutEntry: the entry is always appended.
PutEntry_Append(hist, entry) == Append(hist, entry)

\* The history with entry put in: in the place of the entry of the same
\* identity if there is one, at the end otherwise.
PutEntry(hist, entry) ==
    IF \E k \in DOMAIN hist : SameIdentity(hist[k], entry)
    THEN [k \in DOMAIN hist |-> IF SameIdentity(hist[k], entry) THEN entry ELSE hist[k]]
    ELSE Append(hist, entry)

RECURSIVE RecordFrom_CarryOver(_, _, _, _, _)
\* A mutant of RecordFrom: the new history starts from the previous one.
RecordFrom_CarryOver(new, cycleResults, previous, tok, net) ==
    IF cycleResults = <<>> THEN [panic |-> FALSE, hist |-> previous \o new]
    ELSE LET res == Head(cycleResults)
             last == getTargetResourceLog(res, previous)
             r == ResolveInfos(<<>>, res.ManifestProvenanceInfo,
                               last.lres.ManifestProvenanceResult, tok, net)
         IN IF r.panic THEN [panic |-> TRUE, hist |-> previous]
            ELSE RecordFrom_CarryOver(
                    PutEntry(new, [Kind |-> res.Kind, Namespace |-> res.Namespace,
                                   Name |-> res.Name, ManifestProvenanceResult |-> r.provs]),
                    Tail(cycleResults), previous, tok, net)

RECURSIVE RecordFrom(_, _, _, _, _)
\* record(cycleResults, previous), new holding the entries built so far:
\* [panic, hist].
RecordFrom(new, cycleResults, previous, tok, net) ==
    IF cycleResults = <<>> THEN [panic |-> FALSE, hist |-> new]
    ELSE LET res == Head(cycleResults)
             last == getTargetResourceLog(res, previous)
             r == ResolveInfos(<<>>, res.ManifestProvenanceInfo,
                               last.lres.ManifestProvenanceResult, tok, net)
         IN IF r.panic THEN [panic |-> TRUE, hist |-> previous]
            ELSE RecordFrom(
                    PutEntry(new, [Kind |-> res.Kind, Namespace |-> res.Namespace,
                                   Name |-> res.Name, ManifestProvenanceResult |-> r.provs]),
                    Tail(cycleResults), previous, tok, net)

\* The commit IDs resolved for an entry of a history.
CommitSet(entry) ==
    { entry.ManifestProvenanceResult[i].CommitID : i \in DOMAIN entry.ManifestProvenanceResult }

\* The drift signal of an identity, from its entry of the previous history
\* and its entry of the new one.
DiffSignal(prev, cur) ==
    IF CommitSet(cur) = CommitSet(prev) THEN "no change" ELSE "changed"

NoRecord ==
    [cycleResults |-> <<>>, previous |-> <<>>, net |-> [kind |-> "none", body |-> InvalidBody]]

RecInit ==
    /\ history = <<>>
    /\ recPc = "idle"
    /\ recIn = NoRecord
    /\ newHistory = <<>>
    /\ pending = <<>>

\* A mutant of HistoryDuring: the history is written in place.
HistoryDuring_InPlace(previous, building) == building

\* What a reader of the history finds while the next one is built from
\* previous: the history is replaced wholesale, so previous.
HistoryDuring(previous, building) == previous

\* record(cycleResults, history) is called: the new history starts empty.
Record ==
    /\ recPc = "idle"
    /\ \E cycleResults \in SeqsUpTo(CycleResults, MaxResults), net \in RecordNets :
          /\ recIn' = [cycleResults |-> cycleResults, previous |-> history, net |-> net]
          /\ pending' = cycleResults
    /\ newHistory' = <<>>
    /\ recPc' = "recording"
    /\ UNCHANGED <<history, urlVars, exVars, rsVars, locVars, lkVars>>

\* The next result of the cycle is recorded in the new history.
RecordResult ==
    /\ recPc = "recording"
    /\ pending # <<>>
    /\ LET r == RecordFrom(newHistory, <<Head(pending)>>, recIn.previous, token, recIn.net)
       IN IF r.panic
          THEN /\ recPc' = "panicked"
               /\ UNCHANGED <<history, newHistory, pending>>
          ELSE /\ recPc' = "recording"
               /\ newHistory' = r.hist
               /\ pending' = Tail(pending)
               /\ history' = HistoryDuring(history, r.hist)
    /\ UNCHANGED <<recIn, urlVars, exVars, rsVars, locVars, lkVars>>

\* Every result is recorded: the new history replaces the previous one.
ReplaceHistory ==
    /\ recPc = "recording"
    /\ pending = <<>>
    /\ history' = newHistory
    /\ recPc' = "recorded"
    /\ UNCHANGED <<recIn, newHistory, pending, urlVars, exVars, rsVars, locVars, lkVars>>

\* The cycle is over; the next one can be recorded.
RecordReturn ==
    /\ recPc = "recorded"
    /\ recPc' = "idle"
    /\ recIn' = NoRecord
    /\ newHistory' = <<>>
    /\ UNCHANGED <<history, pending, urlVars, exVars, rsVars, locVars, lkVars>>

RecNext == Record \/ RecordResult \/ ReplaceHistory \/ RecordReturn

(***************************************************************************)
(* Specifications.  The components share no state: each has its own        *)
(* next-state relation over the common initial state.                      *)
(***************************************************************************)
Init == UrlInit /\ ExInit /\ RsInit /\ LocInit /\ RecInit /\ LkInit

UrlNext == ConvertURL \/ ConvertURLReturn

SpecURL == Init /\ [][UrlNext]_vars

SpecExtract == Init /\ [][ExNext]_vars

SpecResolve == Init /\ [][RsNext]_vars

\* The resolver with its steps taken as long as one can be.
SpecResolveLive == SpecResolve /\ WF_vars(RsNext)

SpecLocate == Init /\ [][LocNext]_vars

SpecRecord == Init /\ [][RecNext]_vars

SpecLookup == Init /\ [][LkNext]_vars

(***************************************************************************)
(* Commit-detail URL: claims.                                              *)
(***************************************************************************)
\* C6: the derived URL is the URI with its trailing .git replaced by /commits
\* and its github.com host segment replaced by api.github.com/repos, followed
\* by "/" and the commit ID; a .git or github.com elsewhere is left alone.
C6_CommitDetailURLTransform ==
    urlPc = "returned" => urlOut = IntendedCommitDetailURL(urlIn.parts, urlIn.commit)

(***************************************************************************)
(* Provenance extractor: claims.                                           *)
(***************************************************************************)
IsManifestStatement(res, i) == res.Provenances[i].ArtifactType = ArtifactManifestImage

\* The (statement, material) pairs of manifest-image statements.
ManifestPairs(res) ==
    { <<i, j>> \in (DOMAIN res.Provenances) \X (1..MaxMaterials) :
        /\ IsManifestStatement(res, i)
        /\ j \in DOMAIN res.Provenances[i].AttestationMaterials }

\* The position of a pair in input order: statements first, then materials.
PairRank(res, p) ==
    Cardinality({q \in ManifestPairs(res) : q[1] < p[1] \/ (q[1] = p[1] /\ q[2] <= p[2])})

\* C4: every info of the output comes from a statement of manifest-image
\* type; with no statement, or none of that type, the output is empty.
C4_TypeFilter ==
    exPc = "returned" =>
        LET infos == resourceLog.ManifestProvenanceInfo
        IN /\ \A k \in DOMAIN infos :
                \E p \in ManifestPairs(exIn) :
                    LET st == exIn.Provenances[p[1]]
                    IN /\ infos[k].Artifact = st.Artifact
                       /\ infos[k].Hash = st.Hash
                       /\ infos[k].GitRepo = st.AttestationMaterials[p[2]].URI
           /\ (\A i \in DOMAIN exIn.Provenances : ~IsManifestStatement(exIn, i)) => infos = <<>>

\* A verify result with materials under a manifest-image statement and under
\* a statement of another type: only the former reach the output.
C4_Witness ==
    /\ exPc = "returned"
    /\ \E i, j \in DOMAIN exIn.Provenances :
          /\ IsManifestStatement(exIn, i)
          /\ ~IsManifestStatement(exIn, j)
          /\ exIn.Provenances[i].AttestationMaterials # <<>>
          /\ exIn.Provenances[j].AttestationMaterials # <<>>
    /\ Len(resourceLog.ManifestProvenanceInfo) = Cardinality(ManifestPairs(exIn))

\* C5: the output holds exactly one info per (manifest-image statement,
\* material) pair, in input order, without de-duplication; each info carries
\* the statement's artifact and hash and the material's URI as its repo.
C5_OnePerPairInOrder ==
    exPc = "returned" =>
        LET infos == resourceLog.ManifestProvenanceInfo
        IN /\ Len(infos) = Cardinality(ManifestPairs(exIn))
           /\ \A p \in ManifestPairs(exIn) :
                LET st == exIn.Provenances[p[1]]
                    info == infos[PairRank(exIn, p)]
                IN /\ info.Artifact = st.Artifact
                   /\ info.Hash = st.Hash
                   /\ info.GitRepo = st.AttestationMaterials[p[2]].URI

\* Two pairs of different statements with the same repo and commit: both are
\* in the output.
C5_Witness ==
    /\ exPc = "returned"
    /\ \E p, q \in ManifestPairs(exIn) :
          /\ p[1] < q[1]
          /\ exIn.Provenances[p[1]].Artifact # exIn.Provenances[q[1]].Artifact
          /\ exIn.Provenances[p[1]].AttestationMaterials[p[2]]
               = exIn.Provenances[q[1]].AttestationMaterials[q[2]]
          /\ resourceLog.ManifestProvenanceInfo[PairRank(exIn, p)].GitRepo
               = resourceLog.ManifestProvenanceInfo[PairRank(exIn, q)].GitRepo
          /\ resourceLog.ManifestProvenanceInfo[PairRank(exIn, p)].CommitID
               = resourceLog.ManifestProvenanceInfo[PairRank(exIn, q)].CommitID

\* C20: the info of a material whose digest set has no "commit" key has the
\* empty commitID, and extract returns; the info of a material whose digest
\* set has the key has the value stored under it.
C20_CommitIDFromDigest ==
    exPc = "returned" =>
        \A p \in ManifestPairs(exIn) :
            LET digest == exIn.Provenances[p[1]].AttestationMaterials[p[2]].Digest
                info == resourceLog.ManifestProvenanceInfo[PairRank(exIn, p)]
            IN IF "commit" \in DOMAIN digest
               THEN info.CommitID = digest["commit"]
               ELSE info.CommitID = ""

\* A material with a commit in its digest set and one without, both under
\* manifest-image statements.
C20_Witness ==
    /\ exPc = "returned"
    /\ \E p, q \in ManifestPairs(exIn) :
          /\ "commit" \in DOMAIN exIn.Provenances[p[1]].AttestationMaterials[p[2]].Digest
          /\ "commit" \notin DOMAIN exIn.Provenances[q[1]].AttestationMaterials[q[2]].Digest
          /\ resourceLog.ManifestProvenanceInfo[PairRank(exIn, p)].CommitID = "abc123"
          /\ resourceLog.ManifestProvenanceInfo[PairRank(exIn, q)].CommitID = ""

(***************************************************************************)
(* Commit resolver: claims.                                                *)
(***************************************************************************)
\* The requests of the current cycle that fetch the commit of (repo, commit).
FetchesOf(repo, commit) ==
    {k \in DOMAIN requests : requests[k].URL = convertToCommitDetailURL(repo, commit)}

\* C2: within one cycle at most one remote fetch is issued per
\* (repoURL, commitID) pair; a second resolve is served from the cache.
C2_OneFetchPerCommit ==
    \A info \in ProvInfos : Cardinality(FetchesOf(info.GitRepo, info.CommitID)) <= 1

\* C3: a transport or parse failure while resolving one info does not abort
\* the cycle: the process keeps running and the other infos are resolved.
C3_FailureContained ==
    rsPc # "panicked"

HasCommitAuthorData(body) ==
    /\ body.valid /\ IsMap(body.value)
    /\ IsMap(MapGet(body.value[2], "commit"))
    /\ IsMap(MapGet(MapGet(body.value[2], "commit")[2], "author"))
    /\ IsString(MapGet(MapGet(MapGet(body.value[2], "commit")[2], "author")[2], "date"))

\* C7: a response with valid commit.author data and no files array resolves
\* to a result with an empty changed-file list; it is no failure.
C7_MissingFilesIsEmptyList ==
    ( /\ rsIn.net.kind = "response"
      /\ HasCommitAuthorData(rsIn.net.body)
      /\ "files" \notin DOMAIN rsIn.net.body.value[2] )
    => /\ rsPc = "running"
       /\ results # <<>>
       /\ results[Len(results)].GitApiURL = rsIn.prov.GitApiURL
       /\ results[Len(results)].Files = <<>>

\* C9: every GET the resolver sends carries "Bearer <token>" in its
\* Authorization header when a token is configured, and no Authorization
\* header only when none is.
C9_BearerTokenSent ==
    \A k \in DOMAIN requests :
        IF token # ""
        THEN /\ "Authorization" \in DOMAIN requests[k].Header
             /\ requests[k].Header["Authorization"] = "Bearer " \o token
        ELSE "Authorization" \notin DOMAIN requests[k].Header

\* The commit.author value of a response body, nil if there is none.
AuthorObjectOf(body) ==
    IF body.valid /\ IsMap(body.value) /\ IsMap(MapGet(body.value[2], "commit"))
    THEN MapGet(MapGet(body.value[2], "commit")[2], "author")
    ELSE JNull

\* The last resolution got a response with a commit object.
GotCommitObject ==
    /\ rsIn.net.kind = "response"
    /\ rsIn.net.body.valid /\ IsMap(rsIn.net.body.value)
    /\ IsMap(MapGet(rsIn.net.body.value[2], "commit"))

\* C18: a response whose commit.author.date is absent or not a string is a
\* parse failure of that entry only: the resolver keeps running and builds
\* no result for the entry.
C18_BadDateFailsEntryOnly ==
    ( /\ GotCommitObject
      /\ IsMap(AuthorObjectOf(rsIn.net.body))
      /\ ~IsString(MapGet(AuthorObjectOf(rsIn.net.body)[2], "date")) )
    => /\ rsPc = "running"
       /\ Len(results) < Len(requests)

\* C19: a response whose author email is absent (the email key missing or
\* null, or the author object missing or null) resolves to a result with an
\* empty author; it is no error.
C19_AbsentEmailIsEmptyAuthor ==
    ( /\ GotCommitObject
      /\ \/ AuthorObjectOf(rsIn.net.body) = JNull
         \/ /\ IsMap(AuthorObjectOf(rsIn.net.body))
            /\ MapGet(AuthorObjectOf(rsIn.net.body)[2], "email") = JNull
            /\ IsString(MapGet(AuthorObjectOf(rsIn.net.body)[2], "date")) )
    => /\ rsPc = "running"
       /\ results # <<>>
       /\ results[Len(results)].GitApiURL = rsIn.prov.GitApiURL
       /\ results[Len(results)].Author = ""

\* The author object and the files array of the body of the last response.
LastAuthor == AuthorObjectOf(rsIn.net.body)[2]
LastFiles == MapGet(rsIn.net.body.value[2], "files")[2]

\* C22: the result built from an info and a response parsed with success has
\* the GitRepo, GitApiURL, CommitID, Hash and Artifact of the info; its date,
\* author and files are those of the response; its commit ID is the one
\* requested, never one read from the response.
C22_ResolutionPreservesInfo ==
    (rsPc = "running" /\ rsIn.net.kind = "response") =>
        /\ results # <<>>
        /\ LET mpres == results[Len(results)]
           IN /\ mpres.GitRepo = rsIn.prov.GitRepo
              /\ mpres.GitApiURL = rsIn.prov.GitApiURL
              /\ mpres.CommitID = rsIn.prov.CommitID
              /\ mpres.Hash = rsIn.prov.Hash
              /\ mpres.Artifact = rsIn.prov.Artifact
              /\ mpres.CommitDate = MapGet(LastAuthor, "date")[2]
              /\ mpres.Author = IF MapGet(LastAuthor, "email") = JNull THEN ""
                                ELSE MapGet(LastAuthor, "email")[2]
              /\ mpres.Files = [i \in DOMAIN LastFiles |-> MapGet(LastFiles[i][2], "filename")[2]]

\* A response with a sha other than the commit requested, an author and a
\* file: the result has the commit requested.
C22_Witness ==
    /\ rsPc = "running"
    /\ rsIn.net.kind = "response"
    /\ rsIn.prov.CommitID = "abc123"
    /\ MapGet(rsIn.net.body.value[2], "sha") = JString("fff999")
    /\ results # <<>>
    /\ results[Len(results)].CommitID = "abc123"
    /\ results[Len(results)].Author = "dev@acme.io"
    /\ results[Len(results)].Files = <<"deploy.yaml">>
    /\ results[Len(results)].GitRepo = "https://github.com/acme/app.git"

\* C15: when the deadline of a cycle expires the cycle still completes, with
\* the results built so far: the next cycle starts (unless the process has
\* ended by a panic).
C15_DeadlineCompletesCycle ==
    deadline ~> (deadline = FALSE \/ rsPc = "panicked")

(***************************************************************************)
(* Manifest locator: claims.                                               *)
(***************************************************************************)
IsObjectOfKind(d, kind) == d.parse = "object" /\ d.Kind = kind

HasIdentity(d, obj) ==
    /\ d.parse = "object"
    /\ d.APIVersion = obj.APIVersion /\ d.Kind = obj.Kind
    /\ d.Name = obj.Name /\ d.Namespace = obj.Namespace

LocateCalled == locPc \in {"returned", "panicked"} /\ locIn.env = "ok"

\* C1: when a document of the bundle has exactly the resource's apiVersion,
\* kind, name and namespace, locate returns found with the bytes of such a
\* document, and the content-based search is not consulted.
C1_IdentityPrecedence ==
    (LocateCalled /\ \E i \in DOMAIN locIn.yamls : HasIdentity(locIn.yamls[i], locIn.obj))
    => /\ locPc = "returned"
       /\ locOut.found
       /\ HasIdentity(locOut.bytes, locIn.obj)
       /\ ~locOut.byContent

\* C8: when no document of the bundle has the resource's kind, locate returns
\* NotFound (found = false, no bytes) and does not panic.
C8_NoKindMatchIsNotFound ==
    (LocateCalled /\ \A i \in DOMAIN locIn.yamls : ~IsObjectOfKind(locIn.yamls[i], locIn.obj.Kind))
    => /\ locPc = "returned"
       /\ ~locOut.found
       /\ locOut.bytes = NilBytes

\* The documents of the bundle that are candidates for the resource and
\* match it by content.
HasContent(d, obj) == IsObjectOfKind(d, obj.Kind) /\ d.Content = obj.Content

\* C21: the content-based search runs only when the identity search found
\* nothing; a result found is one document of the bundle, of the resource's
\* kind; when neither search matches, or the pull, the unpacking or the
\* serialization of the resource fails, locate returns (false, nil).
C21_LocateResultShape ==
    locPc \in {"returned", "panicked"} =>
        /\ locOut.byContent =>
              \A i \in DOMAIN locIn.yamls : ~HasIdentity(locIn.yamls[i], locIn.obj)
        /\ locOut.found =>
              /\ IsObjectOfKind(locOut.bytes, locIn.obj.Kind)
              /\ \E i \in DOMAIN locIn.yamls : locIn.yamls[i] = locOut.bytes
        /\ ( \/ locIn.env # "ok"
             \/ \A i \in DOMAIN locIn.yamls :
                   /\ ~HasIdentity(locIn.yamls[i], locIn.obj)
                   /\ ~HasContent(locIn.yamls[i], locIn.obj) )
           => /\ locPc = "returned"
              /\ ~locOut.found
              /\ locOut.bytes = NilBytes

(***************************************************************************)
(* Observation recorder: claims.                                           *)
(***************************************************************************)
InCycle(e) == \E k \in DOMAIN recIn.cycleResults : SameIdentity(recIn.cycleResults[k], e)

\* C10: after record(cycleResults, previous) the new history has an entry for
\* an identity only if cycleResults has a result for it; an entry of the
\* previous history whose resource is not in the cycle is gone.
C10_NoStaleCarryOver ==
    recPc = "recorded" => \A k \in DOMAIN history : InCycle(history[k])

\* A resource of the previous history is absent from the cycle recorded, and
\* from the new history.
C10_Witness ==
    /\ recPc = "recorded"
    /\ recIn.cycleResults # <<>>
    /\ \E k \in DOMAIN recIn.previous :
          /\ ~InCycle(recIn.previous[k])
          /\ \A j \in DOMAIN history : ~SameIdentity(history[j], recIn.previous[k])

\* The last result of the cycle with the identity of cycleResults[k].
IsLastOfIdentity(k) ==
    \A j \in DOMAIN recIn.cycleResults :
        SameIdentity(recIn.cycleResults[j], recIn.cycleResults[k]) => j <= k

InfoCommits(res) ==
    [i \in DOMAIN res.ManifestProvenanceInfo |-> res.ManifestProvenanceInfo[i].CommitID]

EntryCommits(entry) ==
    [i \in DOMAIN entry.ManifestProvenanceResult |-> entry.ManifestProvenanceResult[i].CommitID]

\* C11: the entries of a history are unique by identity (kind, namespace,
\* name); a second result for an identity replaces the earlier entry: the
\* entry recorded is the one of the last result of that identity.
C11_UniqueByIdentity ==
    /\ \A i, j \in DOMAIN history : SameIdentity(history[i], history[j]) => i = j
    /\ recPc = "recorded" =>
          \A k \in DOMAIN recIn.cycleResults :
              IsLastOfIdentity(k) =>
                  \E i \in DOMAIN history :
                      /\ SameIdentity(history[i], recIn.cycleResults[k])
                      /\ EntryCommits(history[i]) = InfoCommits(recIn.cycleResults[k])

\* A cycle with two results for one identity, at different commits: the
\* history holds one entry for it.
C11_Witness ==
    /\ recPc = "recorded"
    /\ \E j, k \in DOMAIN recIn.cycleResults :
          /\ j < k
          /\ SameIdentity(recIn.cycleResults[j], recIn.cycleResults[k])
          /\ InfoCommits(recIn.cycleResults[j]) # InfoCommits(recIn.cycleResults[k])
          /\ Cardinality({i \in DOMAIN history :
                            SameIdentity(history[i], recIn.cycleResults[k])}) = 1

\* The commits the materials of a result of the cycle refer to.
MaterialCommits(res) ==
    { res.ManifestProvenanceInfo[i].CommitID : i \in DOMAIN res.ManifestProvenanceInfo }

\* The entry of the history for the identity of res.
EntryOf(res) == getTargetResourceLog(res, history).lres

\* The entry of the previous history for the identity of res.
PreviousOf(res) == getTargetResourceLog(res, recIn.previous)

\* C12: for an identity in the previous history and in the cycle, the drift
\* signal is "no change" exactly when the commits its materials now refer to
\* are the commits resolved in the previous cycle, and "changed" otherwise.
C12_DriftSignal ==
    recPc = "recorded" =>
        \A k \in DOMAIN recIn.cycleResults :
            LET res == recIn.cycleResults[k]
                signal == DiffSignal(PreviousOf(res).lres, EntryOf(res))
            IN IsLastOfIdentity(k) /\ PreviousOf(res).found =>
                  /\ signal \in {"no change", "changed"}
                  /\ signal = "no change" <=>
                        MaterialCommits(res) = CommitSet(PreviousOf(res).lres)

\* web was resolved at abc123 and its material now refers to def456: changed.
C12_Witness ==
    /\ recPc = "recorded"
    /\ \E k \in DOMAIN recIn.cycleResults :
          LET res == recIn.cycleResults[k]
          IN /\ IsLastOfIdentity(k)
             /\ res.Name = "web"
             /\ PreviousOf(res).found
             /\ CommitSet(PreviousOf(res).lres) = {"abc123"}
             /\ MaterialCommits(res) = {"def456"}
             /\ DiffSignal(PreviousOf(res).lres, EntryOf(res)) = "changed"

(***************************************************************************)
(* History lookups: claims.                                                *)
(***************************************************************************)

\* The places of the list looked up whose entry has the kind, the namespace
\* and the name of the result.
IdentityMatches ==
    { i \in DOMAIN lkIn.lastResults :
        /\ lkIn.lastResults[i].Kind = lkIn.res.Kind
        /\ lkIn.lastResults[i].Namespace = lkIn.res.Namespace
        /\ lkIn.lastResults[i].Name = lkIn.res.Name }

\* The places whose entry has one or two of the three fields of the result.
PartialMatches ==
    { i \in DOMAIN lkIn.lastResults :
        /\ i \notin IdentityMatches
        /\ \/ lkIn.lastResults[i].Kind = lkIn.res.Kind
           \/ lkIn.lastResults[i].Namespace = lkIn.res.Namespace
           \/ lkIn.lastResults[i].Name = lkIn.res.Name }

\* C13: findByIdentity returns (true, the first entry in list order with the
\* kind, namespace and name of the result), and (false, the zero entry)
\* exactly when no entry has all three.
C13_FindByIdentity ==
    lkPc = "byIdentity" =>
        IF IdentityMatches = {}
        THEN lkOut.found = FALSE /\ lkOut.lres = ZeroFinalResult
        ELSE /\ lkOut.found = TRUE
             /\ \E i \in IdentityMatches :
                   /\ \A j \in IdentityMatches : i <= j
                   /\ lkOut.lres = lkIn.lastResults[i]

\* An entry with the kind and name but another namespace stands before the
\* entry of the identity: the second one is returned.
C13_Witness ==
    /\ lkPc = "byIdentity"
    /\ IdentityMatches = {2}
    /\ PartialMatches = {1}
    /\ lkIn.lastResults[1].Kind = lkIn.res.Kind
    /\ lkIn.lastResults[1].Name = lkIn.res.Name
    /\ lkOut.found
    /\ lkOut.lres = lkIn.lastResults[2]

\* The places of the list looked up whose result has the repo of the info.
RepoMatches ==
    { i \in DOMAIN lkIn.lastProvs : lkIn.lastProvs[i].GitRepo = lkIn.new.GitRepo }

\* C14: findByRepo returns (true, the first prior result in list order with
\* the repo URL of the info, whatever its other fields), and (false, the zero
\* result) exactly when none has it.
C14_FindByRepo ==
    lkPc = "byRepo" =>
        IF RepoMatches = {}
        THEN lkOut.found = FALSE /\ lkOut.prov = ZeroProvenanceResult
        ELSE /\ lkOut.found = TRUE
             /\ \E i \in RepoMatches :
                   /\ \A j \in RepoMatches : i <= j
                   /\ lkOut.prov = lkIn.lastProvs[i]

\* Two prior results of the repo, the first at another commit and from
\* another artifact than the info: the first is returned.
C14_Witness ==
    /\ lkPc = "byRepo"
    /\ RepoMatches = {1, 2}
    /\ lkIn.lastProvs[1].CommitID # lkIn.new.CommitID
    /\ lkIn.lastProvs[1].Artifact # lkIn.new.Artifact
    /\ lkIn.lastProvs[2].CommitID = lkIn.new.CommitID
    /\ lkOut.found
    /\ lkOut.prov = lkIn.lastProvs[1]

(***************************************************************************)
(* Observation recorder: order of arrival, replacement of the history.     *)
(***************************************************************************)

\* The orders in which the results of the cycle can arrive.
ArrivalOrders ==
    { [i \in DOMAIN recIn.cycleResults |-> recIn.cycleResults[p[i]]] :
        p \in { q \in [DOMAIN recIn.cycleResults -> DOMAIN recIn.cycleResults] :
                  \A i, j \in DOMAIN recIn.cycleResults : q[i] = q[j] => i = j } }

DistinctIdentities ==
    \A i, j \in DOMAIN recIn.cycleResults :
        SameIdentity(recIn.cycleResults[i], recIn.cycleResults[j]) => i = j

EntriesOf(hist) == { hist[i] : i \in DOMAIN hist }

\* The history record builds from the whole cycle, its results arriving in
\* the order of arrived.
HistoryOf(arrived) == RecordFrom(<<>>, arrived, recIn.previous, token, recIn.net).hist

\* C16: for results of distinct identities, the history recorded has the
\* same entries for every order in which the results arrive.
C16_ArrivalOrderIndependent ==
    recPc = "recorded" /\ DistinctIdentities =>
        \A arrived \in ArrivalOrders :
            /\ Len(HistoryOf(arrived)) = Len(history)
            /\ EntriesOf(HistoryOf(arrived)) = EntriesOf(history)

\* Two results of distinct identities, with different provenance, recorded
\* over a previous history that has both identities.
C16_Witness ==
    /\ recPc = "recorded"
    /\ DistinctIdentities
    /\ Len(recIn.cycleResults) = 2
    /\ InfoCommits(recIn.cycleResults[1]) # InfoCommits(recIn.cycleResults[2])
    /\ Len(recIn.previous) = 2
    /\ Cardinality(ArrivalOrders) = 2
    /\ Len(history) = 2

====
